---- MODULE Spec2Model ----
(***************************************************************************)
(* State-machine model of the VSChats React client (src/unnamed/part_001) *)
(* and of its service worker (src/public/sw.js), with the login of the     *)
(* earlier version of the component (src/src/App.js).                      *)
(*                                                                         *)
(* The component's React state, its refs, localStorage, the socket.io      *)
(* sockets it creates, its pending timers and its HTTP requests in flight  *)
(* are the variables.  Every event handler is one action.  A handler is    *)
(* written as an operator from an application-state record to the record   *)
(* after the handler, so that a handler calling another handler            *)
(* (loadUsers -> handleLogout -> clearAuthData) is operator composition.   *)
(*                                                                         *)
(* Closures are modelled as what they capture: a callback scheduled with   *)
(* setTimeout or registered with socket.on sees the values of the render   *)
(* in which it was created, not the values current when it runs.           *)
(***************************************************************************)
EXTENDS Integers, Sequences, FiniteSets, TLC

VARIABLES
  storage,          \* localStorage: [token, userData]
  currentUser,      \* useState currentUser ("none" = null)
  isLogin,          \* useState isLogin
  users,            \* useState users: sequence of contact ids
  selectedUser,     \* useState selectedUser ("none" = null/undefined)
  messages,         \* useState messages: sequence of message records
  newMessage,       \* useState newMessage: text of the input box
  loading,          \* useState loading
  connectionStatus, \* useState connectionStatus (a string, as token sequence)
  isTyping,         \* useState isTyping
  appLoading,       \* useState appLoading
  sockets,          \* every socket created by io(), in creation order
  socketRef,        \* socketRef.current: index into sockets, 0 = null
  typingTimer,      \* typingTimeoutRef: the pending typing timeout
  deliveryTimers,   \* pending "simulate delivery" timeouts of sendMessage
  pcInit,           \* position of initializeApp: start / validating / done
  initToken,        \* the token initializeApp captured
  initOutcome,      \* how the validation request of initializeApp ended
  authReq,          \* the login/register request in flight
  usersReq,         \* number of GET /api/users requests in flight
  msgReqs,          \* GET /api/messages/:id requests in flight
  emitted,          \* outbound socket events emitted by the last handler
  notices,          \* alert() texts raised by the last handler
  notifications,    \* desktop notifications created by the last handler
  sendCount,        \* number of optimistic messages created so far
  delivered,        \* optimistic messages the delivery timeout has marked
  failed,           \* optimistic messages the send-failure path has removed
  onlineUsers,      \* useState onlineUsers: a Set of user ids
  typingUsers,      \* useState typingUsers: a Set of user ids
  typingAt,         \* when the last inbound typing_start of each contact came
  offlineSeen,      \* contacts a user_offline event found online
  insteadOf,        \* the contact the user had clicked last when the
                    \* response to an earlier click set the conversation
                    \* displayed; none when the latest click set it
  signalled,        \* optimistic messages a message_delivered event has
                    \* named while they were pending
  typingTo,         \* the receiver of the last typing_start emitted that
                    \* no typing_stop to the same receiver has followed
  now,              \* Date.now()
  swShown,          \* service worker: the notifications the OS displays
  swWindows,        \* service worker: number of window clients of the app
  swFocused,        \* which window client has the focus, 0 = none
  swPending,        \* notification clicks whose clients.matchAll is pending
  swCalls,          \* calls made by the last handler of the service worker
  srcApp            \* the component of src/src/App.js: its state, its
                    \* localStorage and its requests in flight

appVars == <<storage, currentUser, isLogin, users, selectedUser, messages,
          newMessage, loading, connectionStatus, isTyping, appLoading,
          sockets, socketRef, typingTimer, deliveryTimers, pcInit, initToken,
          initOutcome, authReq, usersReq, msgReqs, emitted, notices,
          notifications, sendCount, delivered, failed, onlineUsers,
          typingUsers, typingAt, offlineSeen, insteadOf, typingTo,
          signalled, now>>

workerVars == <<swShown, swWindows, swFocused, swPending, swCalls>>

vars == <<appVars, workerVars, srcApp>>

-----------------------------------------------------------------------------
(* Bounds of the model *)

MaxSockets == 2     \* io() calls
MaxSends == 2       \* optimistic messages created
MaxMsgs == 2        \* length of the message sequence
MaxReq == 1         \* requests of one kind in flight
MaxHistory == 2     \* message-history requests in flight
MaxNow == 2000      \* horizon of the clock, in ms
MaxIdle == 3000     \* horizon of the clock where only presence is followed
MaxContent == 52    \* length of the content of an inbound message
MaxShown == 2       \* notifications on display, and clicks being handled
MaxWindows == 2     \* window clients of the app
MaxCalls == 2       \* handleAuth calls of src/src/App.js in flight

(* Program constants *)

reconnectionAttempts == 5   \* io() option
TypingDelay == 2000         \* setTimeout(handleTypingStop, 2000)
DeliveryDelay == 1000       \* setTimeout(mark delivered, 1000)
BodyLimit == 50             \* message.content.length > 50

None == "none"
Contacts == {"c1", "c2"}
CachedToken == "t0"
CachedUser == "u0"
LoginTokens == {"t1"}
LoginUsers == {"u1"}
ServerUsers == {"u0s"}      \* canonical profile returned by /api/validate

-----------------------------------------------------------------------------
(* Values *)

\* JSON.stringify / JSON.parse of a user profile kept in localStorage
Stringify(u) == [kind |-> "json", val |-> u]
Absent == [kind |-> "absent", val |-> None]
Corrupt == [kind |-> "corrupt", val |-> None]
ParseThrows(s) == s.kind # "json"
Parse(s) == s.val

\* connectionStatus strings.  The template string of the reconnect_attempt
\* handler is the sequence of its pieces.
Status(word) == <<word>>
ReconnectingStatus(attempt) == <<"reconnecting (", attempt, "/5)">>
IsReconnecting(st) == Len(st) = 3
Phase(st) == IF Len(st) = 1 THEN st[1] ELSE "reconnecting"
Attempt(st) == IF Len(st) = 3 THEN st[2] ELSE 0

\* '' / whitespace only / text
Inputs == {"", " ", "h", "hi"}
Trim(v) == IF v = " " THEN "" ELSE v

\* message contents: strings as sequences of characters
Content(len) == [k \in 1..len |-> IF k % 3 = 0 THEN "b" ELSE "a"]
Contents == {Content(len) : len \in 0..MaxContent}
Hi == <<"h", "i">>

\* String.prototype.substring(from, to) for 0 <= from <= to
Substring(str, from, to) ==
  SubSeq(str, from + 1, IF to > Len(str) THEN Len(str) ELSE to)

NoTimer == [on |-> FALSE, rem |-> 0, capSel |-> None, capTyping |-> FALSE]
NoAuthReq == [on |-> FALSE, login |-> TRUE, capSel |-> None]

\* the application state as one record
Cur ==
  [storage |-> storage, currentUser |-> currentUser, isLogin |-> isLogin,
   users |-> users, selectedUser |-> selectedUser, messages |-> messages,
   newMessage |-> newMessage, loading |-> loading,
   connectionStatus |-> connectionStatus, isTyping |-> isTyping,
   appLoading |-> appLoading, sockets |-> sockets, socketRef |-> socketRef,
   typingTimer |-> typingTimer, deliveryTimers |-> deliveryTimers,
   pcInit |-> pcInit, initToken |-> initToken, initOutcome |-> initOutcome,
   authReq |-> authReq, delivered |-> delivered, failed |-> failed,
   usersReq |-> usersReq, msgReqs |-> msgReqs, emitted |-> <<>>,
   notices |-> {}, notifications |-> <<>>, sendCount |-> sendCount, onlineUsers |-> onlineUsers,
   typingUsers |-> typingUsers, typingAt |-> typingAt,
   offlineSeen |-> offlineSeen, insteadOf |-> insteadOf,
   typingTo |-> typingTo, signalled |-> signalled]

\* the state after a handler, within the bounds of the model
Set(s) ==
  /\ Len(s.sockets) <= MaxSockets
  /\ s.sendCount <= MaxSends
  /\ Len(s.messages) <= MaxMsgs
  /\ s.usersReq <= MaxReq
  /\ Cardinality(s.msgReqs) <= MaxHistory
  /\ storage' = s.storage
  /\ currentUser' = s.currentUser
  /\ isLogin' = s.isLogin
  /\ users' = s.users
  /\ selectedUser' = s.selectedUser
  /\ messages' = s.messages
  /\ newMessage' = s.newMessage
  /\ loading' = s.loading
  /\ connectionStatus' = s.connectionStatus
  /\ isTyping' = s.isTyping
  /\ appLoading' = s.appLoading
  /\ sockets' = s.sockets
  /\ socketRef' = s.socketRef
  /\ typingTimer' = s.typingTimer
  /\ deliveryTimers' = s.deliveryTimers
  /\ pcInit' = s.pcInit
  /\ initToken' = s.initToken
  /\ authReq' = s.authReq
  /\ usersReq' = s.usersReq
  /\ msgReqs' = s.msgReqs
  /\ emitted' = s.emitted
  /\ notices' = s.notices
  /\ notifications' = s.notifications
  /\ sendCount' = s.sendCount
  /\ initOutcome' = s.initOutcome
  /\ delivered' = s.delivered
  /\ failed' = s.failed
  /\ onlineUsers' = s.onlineUsers
  /\ typingUsers' = s.typingUsers
  /\ typingAt' = s.typingAt
  /\ offlineSeen' = s.offlineSeen
  /\ insteadOf' = s.insteadOf
  /\ typingTo' = s.typingTo
  /\ signalled' = s.signalled
  /\ now' = now
  /\ UNCHANGED <<workerVars, srcApp>>

Alert(s, text) == [s EXCEPT !.notices = @ \cup {text}]

\* the component of src/src/App.js after mounting on a browser whose
\* localStorage holds the given token ("" = none): useState(
\* localStorage.getItem("token") || "")
SrcMounted(stored) ==
  [storage |-> stored, currentUser |-> None, token |-> stored,
   isLogin |-> TRUE, users |-> <<>>, calls |-> <<>>, sockets |-> <<>>,
   usersReqs |-> {}, notices |-> {}]

-----------------------------------------------------------------------------
(* Initial state: the component before its mount effect has run.  The      *)
(* browser's localStorage holds nothing, a credential left by an earlier   *)
(* login, a credential whose profile does not parse, or one of the two     *)
(* items without the other.                                                *)

InitialStorages ==
  { [token |-> None, userData |-> Absent],
    [token |-> None, userData |-> Stringify(CachedUser)],
    [token |-> CachedToken, userData |-> Stringify(CachedUser)],
    [token |-> CachedToken, userData |-> Absent],
    [token |-> CachedToken, userData |-> Corrupt] }

Init ==
  /\ storage \in InitialStorages
  /\ currentUser = None
  /\ isLogin = TRUE
  /\ users = <<>>
  /\ selectedUser = None
  /\ messages = <<>>
  /\ newMessage = ""
  /\ loading = FALSE
  /\ connectionStatus = Status("disconnected")
  /\ isTyping = FALSE
  /\ appLoading = TRUE
  /\ sockets = <<>>
  /\ socketRef = 0
  /\ typingTimer = NoTimer
  /\ deliveryTimers = {}
  /\ pcInit = "start"
  /\ initToken = None
  /\ authReq = NoAuthReq
  /\ usersReq = 0
  /\ msgReqs = {}
  /\ emitted = <<>>
  /\ notices = {}
  /\ notifications = <<>>
  /\ sendCount = 0
  /\ initOutcome = ""
  /\ delivered = {}
  /\ failed = {}
  /\ onlineUsers = {}
  /\ typingUsers = {}
  /\ typingAt = [x \in Contacts |-> -1]
  /\ offlineSeen = {}
  /\ insteadOf = None
  /\ typingTo = None
  /\ signalled = {}
  /\ now = 0
  /\ swShown = <<>>
  /\ swWindows = 1
  /\ swFocused = 1
  /\ swPending = 0
  /\ swCalls = <<>>
  /\ srcApp = SrcMounted("")

-----------------------------------------------------------------------------
(* Handlers of the component, as operators on the application state *)

\* a clearAuthData that leaves the stored profile
ClearAuthData_TokenOnly(s) ==
  [s EXCEPT !.storage.token = None, !.currentUser = None]

\* clearAuthData
ClearAuthData(s) ==
  [s EXCEPT !.storage = [token |-> None, userData |-> Absent],
            !.currentUser = None]

\* socketRef.current?.disconnect(): a connected socket emits 'disconnect'
\* synchronously, which runs the disconnect handler of initializeSocket
SocketDisconnect(s) ==
  IF s.socketRef = 0 THEN s
  ELSE [s EXCEPT !.sockets[s.socketRef].st = "closed",
                 !.connectionStatus =
                    IF s.sockets[s.socketRef].st = "connected"
                    THEN Status("disconnected") ELSE @]

\* handleLogout; confirm is the answer to window.confirm
HandleLogout(s, confirm) ==
  IF confirm
  THEN Alert(SocketDisconnect(
         [ClearAuthData(s) EXCEPT !.currentUser = None,
                                  !.selectedUser = None,
                                  !.messages = <<>>,
                                  !.users = <<>>,
                                  !.insteadOf = None]),
         "You have been logged out successfully.")
  ELSE s

\* initializeSocket; capSel is the selectedUser of the render whose closure
\* registers the socket's handlers
InitializeSocket(s, token, capSel) ==
  [s EXCEPT !.connectionStatus = Status("connecting"),
            !.sockets = Append(@, [token |-> token, st |-> "opening",
                                   attempts |-> 0, seen |-> 0,
                                   capSel |-> capSel]),
            !.socketRef = Len(s.sockets) + 1]

\* loadUsers up to its fetch
LoadUsers(s, confirm) ==
  IF s.storage.token = None
  THEN HandleLogout(s, confirm)
  ELSE [s EXCEPT !.usersReq = @ + 1]

\* validateToken that takes every answer for a valid session
ValidateToken_Lenient(s, outcome, profile) ==
  IF outcome = "ok"
  THEN [s |-> [s EXCEPT !.storage.userData = Stringify(profile),
                        !.currentUser = profile],
        valid |-> TRUE]
  ELSE [s |-> s, valid |-> TRUE]

\* validateToken from the arrival of the response; the result is the state
\* and the value the promise resolves to
ValidateOutcomes ==
  {"ok", "unauthorized", "nonjson", "neterr", "badbody", "typeerrJSON"}

ValidateToken(s, outcome, profile) ==
  CASE outcome = "nonjson" -> [s |-> s, valid |-> FALSE]
    [] outcome = "ok" ->
         [s |-> [s EXCEPT !.storage.userData = Stringify(profile),
                          !.currentUser = profile],
          valid |-> TRUE]
    [] outcome = "unauthorized" -> [s |-> s, valid |-> FALSE]
    [] outcome = "typeerrJSON" -> [s |-> s, valid |-> TRUE]
    [] OTHER -> [s |-> s, valid |-> FALSE]

\* the .then callback of initializeApp
AfterValidate(s, valid, token, confirm) ==
  IF ~valid
  THEN ClearAuthData(s)
  ELSE LoadUsers(InitializeSocket(s, token, None), confirm)

\* handleTypingStop in the closure of a render with the given selectedUser
\* and isTyping
HandleTypingStop(s, sel, typing) ==
  IF sel = None \/ s.socketRef = 0 \/ ~typing THEN s
  ELSE [s EXCEPT !.isTyping = FALSE,
                 !.emitted = Append(@, [ev |-> "typing_stop", to |-> sel,
                                        sock |-> s.socketRef]),
                 !.typingTimer = NoTimer,
                 !.typingTo = IF @ = sel THEN None ELSE @]

\* handleTypingStart in the closure of a render with the given selectedUser
\* and isTyping; the timeout it schedules calls that render's
\* handleTypingStop
HandleTypingStart(s, sel, typing) ==
  IF sel = None \/ s.socketRef = 0 \/ typing THEN s
  ELSE [s EXCEPT !.isTyping = TRUE,
                 !.emitted = Append(@, [ev |-> "typing_start", to |-> sel,
                                        sock |-> s.socketRef]),
                 !.typingTimer = [on |-> TRUE, rem |-> TypingDelay,
                                  capSel |-> sel, capTyping |-> typing],
                 !.typingTo = sel]

\* the optimistic messages of the sequence that carry the given id
Numbers(ms, id) ==
  {ms[k].n : k \in {j \in 1..Len(ms) : ms[j].id = id /\ ms[j].n > 0}}

\* a filter whose predicate rejects nothing
Filter_KeepsAll(ms, id) == ms

RECURSIVE Filter(_, _)
\* messages.filter(msg => msg.id !== id)
Filter(ms, id) ==
  IF ms = <<>> THEN <<>>
  ELSE IF Head(ms).id = id THEN Filter(Tail(ms), id)
       ELSE <<Head(ms)>> \o Filter(Tail(ms), id)

\* messages.map(msg => msg.id === id ? {...msg, pending: false} : msg)
MarkDelivered(ms, id) ==
  [k \in 1..Len(ms) |->
     IF ms[k].id = id THEN [ms[k] EXCEPT !.pending = FALSE] ELSE ms[k]]

\* a sendMessage that tests the content without trimming it
SendMessage_Untrimmed(s, t, throws) ==
  IF s.newMessage = "" \/ s.selectedUser = None \/ s.socketRef = 0
  THEN s
  ELSE
    LET s1 == HandleTypingStop(s, s.selectedUser, s.isTyping)
        m == [id |-> t, own |-> TRUE, pending |-> TRUE,
              n |-> s.sendCount + 1, from |-> "me"]
        s2 == [s1 EXCEPT !.messages = Append(@, m),
                         !.newMessage = "",
                         !.sendCount = @ + 1]
    IN IF throws
       THEN Alert([s2 EXCEPT !.messages = Filter(@, t),
                             !.failed = @ \cup Numbers(s2.messages, t)],
                  "Failed to send message. Please try again.")
       ELSE [s2 EXCEPT !.emitted =
                          Append(@, [ev |-> "send_message",
                                     to |-> s.selectedUser,
                                     sock |-> s.socketRef]),
                       !.deliveryTimers =
                          @ \cup {[n |-> s.sendCount + 1, id |-> t,
                                   rem |-> DeliveryDelay]}]

\* sendMessage in the closure of the current render; t is Date.now() and
\* throws says whether socket.emit throws
SendMessage(s, t, throws) ==
  IF Trim(s.newMessage) = "" \/ s.selectedUser = None \/ s.socketRef = 0
  THEN s
  ELSE
    LET s1 == HandleTypingStop(s, s.selectedUser, s.isTyping)
        m == [id |-> t, own |-> TRUE, pending |-> TRUE,
              n |-> s.sendCount + 1, from |-> "me"]
        s2 == [s1 EXCEPT !.messages = Append(@, m),
                         !.newMessage = "",
                         !.sendCount = @ + 1]
    IN IF throws
       THEN Alert([s2 EXCEPT !.messages = Filter(@, t),
                             !.failed = @ \cup Numbers(s2.messages, t)],
                  "Failed to send message. Please try again.")
       ELSE [s2 EXCEPT !.emitted =
                          Append(@, [ev |-> "send_message",
                                     to |-> s.selectedUser,
                                     sock |-> s.socketRef]),
                       !.deliveryTimers =
                          @ \cup {[n |-> s.sendCount + 1, id |-> t,
                                   rem |-> DeliveryDelay]}]

\* getConnectionStatusColor: a switch on the whole status string
GetConnectionStatusColor(st) ==
  CASE st = Status("connected") -> "#00b300"
    [] st = Status("connecting") -> "#ffa500"
    [] st = Status("error") -> "#ff4444"
    [] st = Status("reconnecting") -> "#ffa500"
    [] OTHER -> "#65676b"

\* what the screen offers
AuthVisible == pcInit # "start" /\ ~appLoading /\ currentUser = None
MainVisible == pcInit # "start" /\ ~appLoading /\ currentUser # None
ChatVisible == MainVisible /\ selectedUser # None
\* an input that is never disabled
InputEnabled_Always == TRUE

\* <input disabled={connectionStatus !== 'connected'}>
InputEnabled == connectionStatus = Status("connected")
\* <button disabled={!newMessage.trim() || connectionStatus !== 'connected'}>
SendButtonEnabled ==
  Trim(newMessage) # "" /\ connectionStatus = Status("connected")

-----------------------------------------------------------------------------
(* Startup *)

\* a test that looks at the stored profile only
HasCredential_ProfileOnly(st) == st.userData.kind # "absent"

\* if (token && userData)
HasCredential(st) == st.token # None /\ st.userData.kind # "absent"

\* an initializeApp that loads the users list without waiting for the
\* validation
InitializeApp_Eager ==
  /\ pcInit = "start"
  /\ Set(LoadUsers([Cur EXCEPT !.pcInit = IF HasCredential(storage)
                                          THEN "validating" ELSE "done",
                               !.initToken = storage.token,
                               !.appLoading = FALSE],
                    FALSE))

\* initializeApp, run by the mount effect, up to the validation request
InitializeApp ==
  /\ pcInit = "start"
  /\ LET s == Cur
     IN IF HasCredential(storage)
        THEN IF ParseThrows(storage.userData)
             THEN Set([ClearAuthData(s) EXCEPT !.pcInit = "done"])
             ELSE Set([s EXCEPT !.currentUser = Parse(storage.userData),
                                !.pcInit = "validating",
                                !.initToken = storage.token])
        ELSE Set([s EXCEPT !.appLoading = FALSE, !.pcInit = "done"])

\* setTimeout(() => setAppLoading(false), 500)
AppLoadingTimeout ==
  /\ pcInit # "start"
  /\ appLoading
  /\ Set([Cur EXCEPT !.appLoading = FALSE])

\* the response to GET /api/validate and the .then callback of initializeApp
ValidateResponse(outcome, profile, confirm) ==
  /\ pcInit = "validating"
  /\ LET r == ValidateToken(Cur, outcome, profile)
         s == AfterValidate(r.s, r.valid, initToken, confirm)
     IN Set([s EXCEPT !.pcInit = "done", !.initOutcome = outcome])

-----------------------------------------------------------------------------
(* Authentication form *)

\* the Sign Up / Sign In switch
ToggleMode ==
  /\ AuthVisible
  /\ ~loading
  /\ Set([Cur EXCEPT !.isLogin = ~isLogin])

\* handleAuth up to its fetch; fieldsOk says whether the fields pass the
\* client-side validation
SubmitAuth(fieldsOk) ==
  /\ AuthVisible
  /\ ~loading
  /\ IF ~fieldsOk
     THEN Set(Alert(Cur, "Please fill all fields"))
     ELSE Set([Cur EXCEPT !.loading = TRUE,
                          !.authReq = [on |-> TRUE, login |-> isLogin,
                                       capSel |-> selectedUser]])

AuthOutcomes == {"ok", "notok", "nonjson", "neterr"}

\* a login that stores the token and forgets the profile
LoginSucceeded_TokenOnly(s, token, user, capSel, confirm) ==
  LoadUsers(
    InitializeSocket(
      [s EXCEPT !.storage.token = token, !.currentUser = user],
      token, capSel),
    confirm)

\* the if (isLogin) branch of handleAuth (the push-notification setup and
\* the welcome alert change nothing of the state modelled here)
LoginSucceeded(s, token, user, capSel, confirm) ==
  LoadUsers(
    InitializeSocket(
      [s EXCEPT !.storage = [token |-> token, userData |-> Stringify(user)],
                !.currentUser = user],
      token, capSel),
    confirm)

\* a handleAuth that signs the user in with the answer to a registration
AuthResponse_RegisterLogsIn(outcome, token, user, confirm) ==
  /\ authReq.on
  /\ LET s0 == [Cur EXCEPT !.authReq = NoAuthReq, !.loading = FALSE]
     IN IF outcome = "ok"
        THEN Set(LoginSucceeded(s0, token, user, authReq.capSel, confirm))
        ELSE Set(Alert(s0, "Operation failed"))

\* handleAuth from the arrival of the response
AuthResponse(outcome, token, user, confirm) ==
  /\ authReq.on
  /\ LET s0 == [Cur EXCEPT !.authReq = NoAuthReq, !.loading = FALSE]
     IN IF outcome = "ok"
        THEN IF authReq.login
             THEN Set(LoginSucceeded(s0, token, user, authReq.capSel, confirm))
             ELSE Set(Alert([s0 EXCEPT !.isLogin = TRUE],
                            "Registration successful!"))
        ELSE Set(Alert(s0, "Operation failed"))

\* the logout button
LogoutClick(confirm) ==
  /\ MainVisible
  /\ Set(HandleLogout(Cur, confirm))

-----------------------------------------------------------------------------
(* The socket.io sockets: the handlers initializeSocket registers, run by  *)
(* the events of the reconnecting client configured at io().  A socket is  *)
(* opening, connected, waiting (for its next reconnection attempt),        *)
(* attempting, failed (its attempts are used up) or closed (disconnect()   *)
(* was called on it); attempts counts the attempts of the current outage   *)
(* and seen is the number the last reconnect_attempt event carried.  The   *)
(* order of the events is that of socket.io-client's reconnection: after   *)
(* a loss or a failed open, attempts numbered from 1, at most              *)
(* reconnectionAttempts of them, then reconnect_failed; a successful       *)
(* connect resets the numbering.  The events are taken to reach the        *)
(* handlers registered on the socket.                                      *)

SocketIds == 1..Len(sockets)

\* 'connect'
Connect(i) ==
  /\ sockets[i].st \in {"opening", "attempting"}
  /\ Set([Cur EXCEPT !.sockets[i].st = "connected",
                     !.sockets[i].attempts = 0,
                     !.connectionStatus = Status("connected")])

\* 'disconnect' on loss of the transport
Disconnect(i) ==
  /\ sockets[i].st = "connected"
  /\ Set([Cur EXCEPT !.sockets[i].st = "waiting",
                     !.connectionStatus = Status("disconnected")])

\* error.message.includes('auth') || error.message.includes('401')
ErrorMessages == {"xhr poll error", "auth failed", "401"}
IsAuthError(msg) == msg \in {"auth failed", "401"}

\* 'connect_error'
ConnectErrorHandler(s, msg, confirm) ==
  LET s1 == [s EXCEPT !.connectionStatus = Status("error")]
  IN IF IsAuthError(msg)
     THEN Alert(HandleLogout(s1, confirm),
                "Session expired. Please login again.")
     ELSE s1

ConnectError(i, msg, confirm) ==
  /\ sockets[i].st \in {"opening", "attempting"}
  /\ Set(ConnectErrorHandler([Cur EXCEPT !.sockets[i].st = "waiting"],
                             msg, confirm))

\* a reconnect_attempt handler that counts from the attempt after
ReconnectAttemptHandler_OffByOne(s, attempt) ==
  [s EXCEPT !.connectionStatus = ReconnectingStatus(attempt + 1)]

\* 'reconnect_attempt'
ReconnectAttemptHandler(s, attempt) ==
  [s EXCEPT !.connectionStatus = ReconnectingStatus(attempt)]

ReconnectAttempt(i) ==
  /\ sockets[i].st = "waiting"
  /\ sockets[i].attempts < reconnectionAttempts
  /\ Set(ReconnectAttemptHandler(
           [Cur EXCEPT !.sockets[i].st = "attempting",
                       !.sockets[i].attempts = @ + 1,
                       !.sockets[i].seen = sockets[i].attempts + 1],
           sockets[i].attempts + 1))

\* 'reconnect_failed'
ReconnectFailed(i) ==
  /\ sockets[i].st = "waiting"
  /\ sockets[i].attempts >= reconnectionAttempts
  /\ Set(Alert([Cur EXCEPT !.sockets[i].st = "failed",
                           !.sockets[i].attempts = 0,
                           !.connectionStatus = Status("failed")],
               "Unable to connect to server."))

\* Notification.permission
Permissions == {"default", "granted", "denied"}

\* a body cut to the limit without the ellipsis
NotificationBody_Cut(content) ==
  IF Len(content) > BodyLimit THEN Substring(content, 0, BodyLimit)
  ELSE content

\* message.content.length > 50
\*   ? message.content.substring(0, 50) + '...' : message.content
NotificationBody(content) ==
  IF Len(content) > BodyLimit
  THEN Substring(content, 0, BodyLimit) \o <<".", ".", ".">>
  ELSE content

\* `New message from ${selectedUser?.username || 'Someone'}`, selectedUser
\* being that of the closure
NotificationTitle(capSel) ==
  <<"New message from ", IF capSel = None THEN "Someone" ELSE capSel>>

\* the notification part of the message handler, for a socket whose
\* handlers closed over capSel; the record of the notification keeps, next
\* to its title and body, the sender and the content of the message it was
\* created for
Notify(s, capSel, from, content, hidden, permission) ==
  IF hidden /\ permission = "granted"
  THEN [s EXCEPT !.notifications =
                    Append(@, [title |-> NotificationTitle(capSel),
                               body |-> NotificationBody(content),
                               from |-> from, content |-> content])]
  ELSE s

\* a message handler that skips a message equal to one of the sequence
InboundMessage_Dedups(i, from, content, hidden, permission) ==
  /\ sockets[i].st = "connected"
  /\ LET m == [id |-> -2, own |-> FALSE, pending |-> FALSE, n |-> 0,
               from |-> from]
     IN Set(Notify([Cur EXCEPT !.messages =
                           IF \E j \in 1..Len(@) : @[j] = m THEN @
                           ELSE Append(@, m)],
                   sockets[i].capSel, from, content, hidden, permission))

\* a message handler that sets the sequence to the message it received
InboundMessage_Replaces(i, from, content, hidden, permission) ==
  /\ sockets[i].st = "connected"
  /\ Set(Notify([Cur EXCEPT !.messages =
                        <<[id |-> -2, own |-> FALSE, pending |-> FALSE,
                           n |-> 0, from |-> from]>>],
                 sockets[i].capSel, from, content, hidden, permission))

\* 'message': the event carries the sender and the content; hidden is
\* document.hidden and permission is Notification.permission
InboundMessage(i, from, content, hidden, permission) ==
  /\ sockets[i].st = "connected"
  /\ Set(Notify([Cur EXCEPT !.messages =
                        Append(@, [id |-> -2, own |-> FALSE, pending |-> FALSE,
                                   n |-> 0, from |-> from])],
                 sockets[i].capSel, from, content, hidden, permission))

\* setOnlineUsers(prev => new Set([...prev, userId]))
Add(set, userId) == set \cup {userId}

\* a delete that adds the id when the set does not hold it
Delete_Toggles(set, userId) ==
  IF userId \in set THEN set \ {userId} ELSE set \cup {userId}

\* setOnlineUsers(prev => { const newSet = new Set(prev);
\*                          newSet.delete(userId); return newSet; })
Delete(set, userId) == set \ {userId}

\* 'user_online'
UserOnline(i, userId) ==
  /\ sockets[i].st = "connected"
  /\ Set([Cur EXCEPT !.onlineUsers = Add(@, userId)])

\* 'user_offline'
UserOffline(i, userId) ==
  /\ sockets[i].st = "connected"
  /\ Set([Cur EXCEPT !.onlineUsers = Delete(@, userId),
                     !.offlineSeen = IF userId \in onlineUsers
                                     THEN @ \cup {userId} ELSE @])

\* 'typing_start' from a contact
TypingStartInbound(i, userId) ==
  /\ sockets[i].st = "connected"
  /\ Set([Cur EXCEPT !.typingUsers = Add(@, userId),
                     !.typingAt[userId] = now])

\* 'typing_stop' from a contact
TypingStopInbound(i, userId) ==
  /\ sockets[i].st = "connected"
  /\ Set([Cur EXCEPT !.typingUsers = Delete(@, userId)])

\* the optimistic messages of the sequence that are pending
Pending(ms) == {ms[k].n : k \in {j \in 1..Len(ms) : ms[j].own /\ ms[j].pending}}

\* a message_delivered handler that marks the message it names delivered
MessageDelivered_Marks(i, n) ==
  /\ sockets[i].st = "connected"
  /\ n \in Pending(messages)
  /\ Set([Cur EXCEPT !.signalled = @ \cup {n},
                     !.messages = [k \in 1..Len(@) |->
                                     IF @[k].n = n
                                     THEN [@[k] EXCEPT !.pending = FALSE]
                                     ELSE @[k]]])

\* 'message_delivered': the handler logs the event.  The event names one
\* of the messages the user has sent, n.
MessageDelivered(i, n) ==
  /\ sockets[i].st = "connected"
  /\ n \in Pending(messages)
  /\ Set([Cur EXCEPT !.signalled = @ \cup {n}])

-----------------------------------------------------------------------------
(* Contacts and history *)

ServerUserLists == {<<>>, <<"c1", "c2">>}
LoadOutcomes == {"ok", "unauthorized", "nonjson", "failed", "neterr"}

\* the refresh / retry buttons
LoadUsersClick(confirm) ==
  /\ MainVisible
  /\ Set(LoadUsers(Cur, confirm))

\* loadUsers from the arrival of the response
UsersResponse(outcome, list, confirm) ==
  /\ usersReq > 0
  /\ LET s0 == [Cur EXCEPT !.usersReq = @ - 1]
     IN Set(CASE outcome = "nonjson" -> [s0 EXCEPT !.users = <<>>]
              [] outcome = "ok" -> [s0 EXCEPT !.users = list]
              [] outcome = "unauthorized" ->
                   Alert(HandleLogout(s0, confirm),
                         "Your session has expired. Please login again.")
              [] outcome = "failed" -> Alert(s0, "Failed to load users.")
              [] OTHER -> s0)

ToSet(seq) == {seq[k] : k \in 1..Len(seq)}

\* a click on a contact: loadMessages up to its fetch.  A request in
\* flight records the contact of the latest click made after its own
\* (none while its own click is the latest).
SelectContact(c) ==
  /\ MainVisible
  /\ c \in ToSet(users)
  /\ Set([Cur EXCEPT !.msgReqs =
                        {[r EXCEPT !.superseded = c] : r \in @}
                          \cup {[userId |-> c, capUsers |-> users,
                                  superseded |-> None]}])

\* users.find(user => user.id === userId)
Find(list, userId) == IF userId \in ToSet(list) THEN userId ELSE None

History(c) ==
  {<<>>, <<[id |-> -1, own |-> FALSE, pending |-> FALSE, n |-> 0, from |-> c]>>}

\* a loadMessages that drops the response to a request the user has
\* superseded
MessagesResponse_LatestOnly(r, outcome, data, confirm) ==
  /\ r \in msgReqs
  /\ LET s0 == [Cur EXCEPT !.msgReqs = @ \ {r}]
     IN Set(IF r.superseded = None
            THEN [s0 EXCEPT !.messages = data,
                            !.selectedUser = Find(r.capUsers, r.userId)]
            ELSE s0)

\* loadMessages from the arrival of the response
MessagesResponse(r, outcome, data, confirm) ==
  /\ r \in msgReqs
  /\ LET s0 == [Cur EXCEPT !.msgReqs = @ \ {r}]
     IN Set(CASE outcome = "nonjson" -> [s0 EXCEPT !.messages = <<>>]
              [] outcome = "ok" ->
                   [s0 EXCEPT !.messages = data,
                              !.selectedUser = Find(r.capUsers, r.userId),
                              !.insteadOf = r.superseded]
              [] outcome = "unauthorized" ->
                   Alert(HandleLogout(s0, confirm),
                         "Your session has expired. Please login again.")
              [] outcome = "failed" -> Alert(s0, "Failed to load messages.")
              [] OTHER -> s0)

\* handleBackToContacts
BackToContacts ==
  /\ ChatVisible
  /\ Set([Cur EXCEPT !.selectedUser = None, !.messages = <<>>,
                     !.insteadOf = None])

-----------------------------------------------------------------------------
(* Typing and sending *)

\* handleInputChange
InputChange(v) ==
  /\ ChatVisible
  /\ InputEnabled
  /\ v # newMessage
  /\ LET s == [Cur EXCEPT !.newMessage = v]
     IN Set(IF Trim(v) # ""
            THEN HandleTypingStart(s, selectedUser, isTyping)
            ELSE HandleTypingStop(s, selectedUser, isTyping))

\* the user's attempt to send: a click on the send button or Enter in the
\* input.  A disabled control delivers no event, so nothing runs.
SendAttempt(via, throws) ==
  /\ ChatVisible
  /\ IF (via = "button" /\ SendButtonEnabled) \/ (via = "enter" /\ InputEnabled)
     THEN Set(SendMessage(Cur, now, throws))
     ELSE Set(Cur)

\* the typing timeout fires: handleTypingStop of the render that set it
TypingTimeout ==
  /\ typingTimer.on
  /\ typingTimer.rem = 0
  /\ Set(HandleTypingStop([Cur EXCEPT !.typingTimer = NoTimer],
                          typingTimer.capSel, typingTimer.capTyping))

\* the optimistic messages a delivery timeout finds pending under its id
Marked(ms, id) ==
  {ms[k].n : k \in {j \in 1..Len(ms) :
                      ms[j].id = id /\ ms[j].pending /\ ms[j].n > 0}}

\* a delivery timeout fires
DeliveryTimeout(tm) ==
  /\ tm \in deliveryTimers
  /\ tm.rem = 0
  /\ Set([Cur EXCEPT !.deliveryTimers = @ \ {tm},
                     !.messages = MarkDelivered(@, tm.id),
                     !.delivered = @ \cup Marked(messages, tm.id)])

-----------------------------------------------------------------------------
(* Time *)

Remaining ==
  {tm.rem : tm \in deliveryTimers} \cup
  (IF typingTimer.on THEN {typingTimer.rem} ELSE {})

Min(S) == CHOOSE x \in S : \A y \in S : x <= y

\* time passes, at most up to the next timeout that is due and up to the
\* given horizon
Pass(horizon) ==
  /\ 0 \notin Remaining
  /\ LET d == Min(Remaining \cup {DeliveryDelay})
     IN /\ now + d <= horizon
        /\ now' = now + d
        /\ deliveryTimers' = {[tm EXCEPT !.rem = @ - d] : tm \in deliveryTimers}
        /\ typingTimer' = IF typingTimer.on
                          THEN [typingTimer EXCEPT !.rem = @ - d]
                          ELSE typingTimer
        /\ notices' = {}
        /\ notifications' = <<>>
        /\ emitted' = <<>>
  /\ UNCHANGED <<storage, currentUser, isLogin, users, selectedUser, messages,
                 newMessage, loading, connectionStatus, isTyping, appLoading,
                 sockets, socketRef, pcInit, initToken, initOutcome, authReq,
                 usersReq, msgReqs, sendCount, delivered, failed, onlineUsers,
                 typingUsers, typingAt, offlineSeen, insteadOf, typingTo,
                 signalled, workerVars, srcApp>>

Tick == Pass(MaxNow)

-----------------------------------------------------------------------------
(* The service worker (src/public/sw.js): its push and notificationclick   *)
(* listeners, and the windows of the app the user opens and closes.  The   *)
(* component is not involved: its state stays as it is.                    *)

Missing == "undefined"

\* what a push event carries: no data, data that is not JSON, the JSON
\* value null, or a JSON object whose title and body are missing, empty or
\* a text
Texts == {Missing, "", "text"}
Payloads ==
  {[kind |-> k, title |-> Missing, body |-> Missing] :
     k \in {"none", "notjson", "null"}}
  \cup {[kind |-> "object", title |-> ti, body |-> b] :
          ti \in Texts, b \in Texts}

\* event.data.json() throws on data that is not JSON, and data.body throws
\* on null
PushThrows(payload) == payload.kind \in {"notjson", "null"}

\* value || fallback
Or(value, fallback) == IF value \in {Missing, ""} THEN fallback ELSE value

\* 'push'
Push(payload) ==
  /\ IF PushThrows(payload)
     THEN /\ swShown' = swShown
          /\ swCalls' = <<>>
     ELSE /\ Len(swShown) < MaxShown
          /\ LET n == [title |-> Or(payload.title, "Chat App"),
                       body |-> Or(payload.body, "You have a new message")]
             IN /\ swShown' = Append(swShown, n)
                /\ swCalls' = <<[op |-> "showNotification", arg |-> n]>>
  /\ UNCHANGED <<swWindows, swFocused, swPending, appVars, srcApp>>

\* the sequence without its k-th element
Remove(seq, k) == SubSeq(seq, 1, k - 1) \o SubSeq(seq, k + 1, Len(seq))

\* 'notificationclick' up to clients.matchAll
NotificationClick(k) ==
  /\ k \in 1..Len(swShown)
  /\ swPending < MaxShown
  /\ swShown' = Remove(swShown, k)
  /\ swPending' = swPending + 1
  /\ swCalls' = <<[op |-> "close", arg |-> swShown[k]]>>
  /\ UNCHANGED <<swWindows, swFocused, appVars, srcApp>>

\* a callback that opens a window whatever the list holds
ClickTarget_AlwaysOpens(windows) == "openWindow"

\* for (const client of clientList) if ('focus' in client) return ...;
\* if (clients.openWindow) return clients.openWindow('/')
ClickTarget(windows) == IF windows > 0 THEN "focus" ELSE "openWindow"

\* the .then callback of clients.matchAll, with the window clients of the
\* moment
MatchAllResolved ==
  /\ swPending > 0
  /\ swPending' = swPending - 1
  /\ IF ClickTarget(swWindows) = "focus"
     THEN /\ swCalls' = <<[op |-> "focus", arg |-> 1]>>
          /\ swFocused' = 1
          /\ swWindows' = swWindows
     ELSE /\ swWindows + 1 <= MaxWindows
          /\ swCalls' = <<[op |-> "openWindow", arg |-> "/"]>>
          /\ swWindows' = swWindows + 1
          /\ swFocused' = 1
  /\ UNCHANGED <<swShown, appVars, srcApp>>

\* the user opens the app in another window
WindowOpened ==
  /\ swWindows < MaxWindows
  /\ swWindows' = swWindows + 1
  /\ swFocused' = 1
  /\ swCalls' = <<>>
  /\ UNCHANGED <<swShown, swPending, appVars, srcApp>>

\* the user closes a window of the app
WindowClosed ==
  /\ swWindows > 0
  /\ swWindows' = swWindows - 1
  /\ swFocused' = 0
  /\ swCalls' = <<>>
  /\ UNCHANGED <<swShown, swPending, appVars, srcApp>>

\* the user turns to another application
WindowBlurred ==
  /\ swFocused # 0
  /\ swFocused' = 0
  /\ swCalls' = <<>>
  /\ UNCHANGED <<swShown, swWindows, swPending, appVars, srcApp>>

-----------------------------------------------------------------------------
(* The whole client *)

-----------------------------------------------------------------------------
(* The component of src/src/App.js: its login.  calls are the handleAuth   *)
(* invocations in flight, each with the token state and the mode of the    *)
(* render whose button was clicked; sockets are the auth tokens of the     *)
(* sockets opened; a users-list request records its Authorization token    *)
(* and the token returned by the login that issued it.                     *)

SrcTokens == {"t1", "t2"}

SrcCur == [srcApp EXCEPT !.notices = {}]

SrcSet(a) ==
  /\ Len(a.calls) <= MaxCalls
  /\ Len(a.sockets) <= MaxSockets
  /\ srcApp' = a
  /\ UNCHANGED <<appVars, workerVars>>

SrcAlert(a, text) == [a EXCEPT !.notices = @ \cup {text}]

\* loadUsers in the closure of a render whose token state is capToken
SrcLoadUsers(a, capToken, loginToken) ==
  [a EXCEPT !.usersReqs = @ \cup {[auth |-> capToken, login |-> loginToken]}]

\* the end of the if (isLogin) branch of handleAuth: io() and loadUsers()
SrcOpenChannel(a, call) ==
  SrcLoadUsers([a EXCEPT !.sockets = Append(@, call.data)],
               call.capToken, call.data)

\* the Login / Register switch
SrcToggleMode ==
  /\ srcApp.currentUser = None
  /\ SrcSet([SrcCur EXCEPT !.isLogin = ~@])

\* handleAuth up to its fetch
SrcHandleAuth(fieldsOk) ==
  /\ srcApp.currentUser = None
  /\ IF ~fieldsOk
     THEN SrcSet(SrcAlert(SrcCur, "Please fill all fields"))
     ELSE SrcSet([SrcCur EXCEPT !.calls =
                    Append(@, [login |-> srcApp.isLogin,
                               capToken |-> srcApp.token,
                               stage |-> "fetch", data |-> ""])])

\* handleAuth from the arrival of the response to the first await of the
\* service-worker block, or to its end where the browser has no service
\* workers
SrcAuthResponse(k, outcome, tk, user, hasWorker) ==
  /\ k \in 1..Len(srcApp.calls)
  /\ srcApp.calls[k].stage = "fetch"
  /\ LET call == [srcApp.calls[k] EXCEPT !.stage = "push", !.data = tk]
         done == [SrcCur EXCEPT !.calls = Remove(@, k)]
         in == [SrcCur EXCEPT !.currentUser = user, !.token = tk,
                              !.storage = tk]
     IN IF outcome # "ok"
        THEN SrcSet(SrcAlert(done, "Operation failed"))
        ELSE IF ~call.login
        THEN SrcSet(SrcAlert([done EXCEPT !.isLogin = TRUE],
                             "Registration successful! Please login."))
        ELSE IF hasWorker
        THEN SrcSet([in EXCEPT !.calls[k] = call])
        ELSE SrcSet(SrcOpenChannel([in EXCEPT !.calls = Remove(@, k)], call))

\* handleAuth from the end of the service-worker block: the registration,
\* the subscription and the POST of the subscription succeeded, or one of
\* them threw
SrcPushSetup(k, ok) ==
  /\ k \in 1..Len(srcApp.calls)
  /\ srcApp.calls[k].stage = "push"
  /\ LET done == [SrcCur EXCEPT !.calls = Remove(@, k)]
     IN IF ok
        THEN SrcSet(SrcOpenChannel(done, srcApp.calls[k]))
        ELSE SrcSet(SrcAlert(done, "Operation failed"))

\* loadUsers from the arrival of the response
SrcUsersResponse(q, ok) ==
  /\ q \in srcApp.usersReqs
  /\ LET a == [SrcCur EXCEPT !.usersReqs = @ \ {q}]
     IN SrcSet(IF ok THEN [a EXCEPT !.users = <<"c1", "c2">>] ELSE a)

\* the page is loaded again
SrcReload ==
  /\ srcApp # SrcMounted(srcApp.storage)
  /\ SrcSet(SrcMounted(srcApp.storage))

Startup ==
  \/ InitializeApp
  \/ AppLoadingTimeout
  \/ \E o \in ValidateOutcomes, u \in ServerUsers, c \in BOOLEAN :
       ValidateResponse(o, u, c)

Auth ==
  \/ ToggleMode
  \/ \E ok \in BOOLEAN : SubmitAuth(ok)
  \/ \E o \in AuthOutcomes, t \in LoginTokens, u \in LoginUsers, c \in BOOLEAN :
       AuthResponse(o, t, u, c)
  \/ \E c \in BOOLEAN : LogoutClick(c)

Lifecycle ==
  \E i \in SocketIds :
    \/ Connect(i)
    \/ Disconnect(i)
    \/ \E m \in ErrorMessages, c \in BOOLEAN : ConnectError(i, m, c)
    \/ ReconnectAttempt(i)
    \/ ReconnectFailed(i)

Inbound ==
  \E i \in SocketIds, f \in Contacts :
    \/ \E c \in Contents, h \in BOOLEAN, p \in Permissions :
         InboundMessage(i, f, c, h, p)
    \/ UserOnline(i, f)
    \/ UserOffline(i, f)
    \/ TypingStartInbound(i, f)
    \/ TypingStopInbound(i, f)
    \/ \E n \in 1..sendCount : MessageDelivered(i, n)

Loads ==
  \/ \E c \in BOOLEAN : LoadUsersClick(c)
  \/ \E o \in LoadOutcomes, l \in ServerUserLists, c \in BOOLEAN :
       UsersResponse(o, l, c)
  \/ \E c \in Contacts : SelectContact(c)
  \/ \E r \in msgReqs, o \in LoadOutcomes, c \in BOOLEAN :
       \E d \in History(r.userId) : MessagesResponse(r, o, d, c)
  \/ BackToContacts

Chat ==
  \/ \E v \in Inputs : InputChange(v)
  \/ \E via \in {"button", "enter"}, th \in BOOLEAN : SendAttempt(via, th)
  \/ TypingTimeout
  \/ \E tm \in deliveryTimers : DeliveryTimeout(tm)
  \/ Tick

Worker ==
  \/ \E p \in Payloads : Push(p)
  \/ \E k \in 1..Len(swShown) : NotificationClick(k)
  \/ MatchAllResolved
  \/ WindowOpened
  \/ WindowClosed
  \/ WindowBlurred

Next == Startup \/ Auth \/ Lifecycle \/ Inbound \/ Loads \/ Chat \/ Worker

Spec == Init /\ [][Next]_vars

-----------------------------------------------------------------------------
(* The session and the channel: startup, login, logout, the socket's       *)
(* lifecycle and the users list, without conversations                     *)

NextSession ==
  \/ Startup
  \/ Auth
  \/ \E i \in SocketIds :
       \/ Connect(i)
       \/ Disconnect(i)
       \/ \E m \in ErrorMessages, c \in BOOLEAN : ConnectError(i, m, c)
  \/ \E c \in BOOLEAN : LoadUsersClick(c)
  \/ \E o \in LoadOutcomes, l \in ServerUserLists, c \in BOOLEAN :
       UsersResponse(o, l, c)

SpecSession == Init /\ [][NextSession]_vars

(* A conversation: a user who logs in once on a browser without a cached  *)
(* credential, over a channel that connects and disconnects, and who waits *)
(* for the history of a contact before clicking the next                   *)

InitAnonymous == Init /\ storage.token = None

NextChat ==
  \/ InitializeApp
  \/ SubmitAuth(TRUE)
  \/ \E t \in LoginTokens, u \in LoginUsers :
       sockets = <<>> /\ AuthResponse("ok", t, u, FALSE)
  \/ \E c \in BOOLEAN : LogoutClick(c)
  \/ \E i \in SocketIds : Connect(i) \/ Disconnect(i)
  \/ \E i \in SocketIds : InboundMessage(i, "c1", Hi, FALSE, "granted")
  \/ UsersResponse("ok", <<"c1", "c2">>, FALSE)
  \/ \E c \in Contacts : msgReqs = {} /\ SelectContact(c)
  \/ \E r \in msgReqs : \E d \in History(r.userId) :
       MessagesResponse(r, "ok", d, FALSE)
  \/ BackToContacts
  \/ Chat

SpecChat == InitAnonymous /\ [][NextChat]_vars

(* The channel of a user who logs in on a browser without a cached         *)
(* credential: every lifecycle event of the reconnecting socket            *)

NextChannel ==
  \/ InitializeApp
  \/ Auth
  \/ Lifecycle
  \/ \E o \in LoadOutcomes, l \in ServerUserLists, c \in BOOLEAN :
       UsersResponse(o, l, c)

SpecChannel == InitAnonymous /\ [][NextChannel]_vars

(* Sending over a channel in every phase of its lifecycle: a user who logs *)
(* in once, opens a conversation and types and sends while the socket      *)
(* connects, fails, retries and gives up                                   *)

NextSend ==
  \/ InitializeApp
  \/ SubmitAuth(TRUE)
  \/ \E t \in LoginTokens, u \in LoginUsers :
       sockets = <<>> /\ AuthResponse("ok", t, u, FALSE)
  \/ \E i \in SocketIds :
       \/ Connect(i)
       \/ Disconnect(i)
       \/ ConnectError(i, "xhr poll error", FALSE)
       \/ ReconnectAttempt(i)
       \/ ReconnectFailed(i)
  \/ UsersResponse("ok", <<"c1", "c2">>, FALSE)
  \/ \E c \in Contacts : msgReqs = {} /\ SelectContact(c)
  \/ \E r \in msgReqs : MessagesResponse(r, "ok", <<>>, FALSE)
  \/ Chat

SpecSend == InitAnonymous /\ [][NextSend]_vars

(* Delivery: a user who logs in once, opens the conversation with one      *)
(* contact and sends, while the server acknowledges the messages           *)

NextDelivery ==
  \/ InitializeApp
  \/ SubmitAuth(TRUE)
  \/ \E t \in LoginTokens, u \in LoginUsers :
       sockets = <<>> /\ AuthResponse("ok", t, u, FALSE)
  \/ \E i \in SocketIds : Connect(i)
  \/ UsersResponse("ok", <<"c1", "c2">>, FALSE)
  \/ msgReqs = {} /\ selectedUser = None /\ SelectContact("c1")
  \/ \E r \in msgReqs : MessagesResponse(r, "ok", <<>>, FALSE)
  \/ \E i \in SocketIds, n \in 1..sendCount : MessageDelivered(i, n)
  \/ Chat

SpecDelivery == InitAnonymous /\ [][NextDelivery]_vars

(* The login of src/src/App.js *)

NextSrc ==
  \/ SrcToggleMode
  \/ \E f \in BOOLEAN : SrcHandleAuth(f)
  \/ \E k \in 1..Len(srcApp.calls), o \in {"ok", "notok", "neterr"},
        tk \in SrcTokens, u \in LoginUsers, w \in BOOLEAN :
       SrcAuthResponse(k, o, tk, u, w)
  \/ \E k \in 1..Len(srcApp.calls), ok \in BOOLEAN : SrcPushSetup(k, ok)
  \/ \E q \in srcApp.usersReqs, ok \in BOOLEAN : SrcUsersResponse(q, ok)
  \/ SrcReload

SpecSrc == InitAnonymous /\ [][NextSrc]_vars

(* Presence: the online and typing sets of a user who logs in once, fed by *)
(* the events of a channel that connects and disconnects                   *)

NextPresence ==
  \/ InitializeApp
  \/ SubmitAuth(TRUE)
  \/ \E t \in LoginTokens, u \in LoginUsers :
       sockets = <<>> /\ AuthResponse("ok", t, u, FALSE)
  \/ \E i \in SocketIds : Connect(i) \/ Disconnect(i)
  \/ \E i \in SocketIds, x \in Contacts :
       \/ UserOnline(i, x)
       \/ UserOffline(i, x)
       \/ TypingStartInbound(i, x)
       \/ TypingStopInbound(i, x)
  \/ Pass(MaxIdle)

SpecPresence == InitAnonymous /\ [][NextPresence]_vars

(* Desktop notifications: a user who logs in once, opens conversations and *)
(* receives messages of every length with the document shown or hidden     *)

NextNotify ==
  \/ InitializeApp
  \/ SubmitAuth(TRUE)
  \/ \E t \in LoginTokens, u \in LoginUsers :
       sockets = <<>> /\ AuthResponse("ok", t, u, FALSE)
  \/ \E i \in SocketIds : Connect(i)
  \/ UsersResponse("ok", <<"c1", "c2">>, FALSE)
  \/ \E c \in Contacts : msgReqs = {} /\ SelectContact(c)
  \/ \E r \in msgReqs : MessagesResponse(r, "ok", <<>>, FALSE)
  \/ \E i \in SocketIds, f \in Contacts, c \in Contents, h \in BOOLEAN,
        p \in {"granted", "denied"} : InboundMessage(i, f, c, h, p)

SpecNotify == InitAnonymous /\ [][NextNotify]_vars

(* Conversation switches: a user who logs in once and clicks contacts      *)
(* without waiting for the history of the one clicked before; the          *)
(* responses arrive in any order                                           *)

NextHistory ==
  \/ InitializeApp
  \/ SubmitAuth(TRUE)
  \/ \E t \in LoginTokens, u \in LoginUsers :
       sockets = <<>> /\ AuthResponse("ok", t, u, FALSE)
  \/ \E i \in SocketIds : Connect(i)
  \/ \E i \in SocketIds : InboundMessage(i, "c1", Hi, FALSE, "granted")
  \/ UsersResponse("ok", <<"c1", "c2">>, FALSE)
  \/ \E c \in Contacts : SelectContact(c)
  \/ \E r \in msgReqs : \E d \in History(r.userId) :
       MessagesResponse(r, "ok", d, FALSE)
  \/ BackToContacts

SpecHistory == InitAnonymous /\ [][NextHistory]_vars

(* The service worker alone *)

NextWorker ==
  \/ \E p \in Payloads : Push(p)
  \/ \E k \in 1..Len(swShown) : NotificationClick(k)
  \/ MatchAllResolved
  \/ WindowOpened
  \/ WindowClosed
  \/ WindowBlurred

SpecWorker == InitAnonymous /\ [][NextWorker]_vars

-----------------------------------------------------------------------------
(* Properties *)

Connected == connectionStatus = Status("connected")
AuthErrors == {m \in ErrorMessages : IsAuthError(m)}
Open(i) == sockets[i].st \in {"opening", "connected", "waiting", "attempting"}
HasTimer(k) == \E tm \in deliveryTimers : tm.n = k
InSequence(k) == \E j \in 1..Len(messages) : messages[j].n = k

\* C1: an attempt to send while connectionStatus is not 'connected' leaves
\* the message sequence unchanged, emits no event and schedules nothing:
\* the message is rejected, not queued.
C1_RejectedWhenNotConnected ==
  [][(~Connected /\ \E via \in {"button", "enter"}, th \in BOOLEAN :
                      SendAttempt(via, th))
     => /\ messages' = messages
        /\ emitted' = <<>>
        /\ deliveryTimers' = deliveryTimers
        /\ sendCount' = sendCount]_vars

\* C1 witness: a conversation is open, text is typed, the socket exists and
\* the connection is down: only the connection stands between the user and
\* a send.
C1_Witness ==
  /\ ChatVisible
  /\ Trim(newMessage) # ""
  /\ socketRef # 0
  /\ Phase(connectionStatus) \in {"disconnected", "error", "failed",
                                  "reconnecting"}

\* C2 as claimed: once the delivery timeout of a send is no longer pending,
\* its optimistic message is in exactly one terminal state, marked delivered
\* or removed by the send-failure path (never both, never neither).
C2_ExactlyOneTerminal ==
  \A k \in 1..sendCount :
    ~HasTimer(k) => ((k \in delivered) # (k \in failed))

\* C2 amended: no optimistic message is both marked delivered and removed by
\* the send-failure path; a message still pending in the sequence has its
\* delivery timeout pending; and a message that ended in neither state is
\* one that left the sequence when it was cleared or replaced.
C2_AtMostOneTerminal ==
  /\ delivered \cap failed = {}
  /\ \A j \in 1..Len(messages) :
       (messages[j].n > 0 /\ messages[j].pending)
         => \E tm \in deliveryTimers : tm.id = messages[j].id
  /\ \A k \in 1..sendCount :
       (~HasTimer(k) /\ k \notin delivered \cup failed) => ~InSequence(k)

\* C2 witness: a send whose timeout has fired and whose message was neither
\* marked delivered nor removed by the send-failure path
C2_Witness ==
  \E k \in 1..sendCount : ~HasTimer(k) /\ k \notin delivered \cup failed

\* C3: when GET /api/validate answers 401 at startup, that step clears the
\* stored credential, makes the session anonymous and opens no socket, and
\* no socket is ever opened with the token of that startup.
C3_UnauthorizedClears ==
  [][/\ (\E u \in ServerUsers, c \in BOOLEAN :
           ValidateResponse("unauthorized", u, c))
        => /\ storage'.token = None
           /\ storage'.userData = Absent
           /\ currentUser' = None
           /\ sockets' = sockets
           /\ socketRef' = socketRef
     /\ initOutcome' = "unauthorized"
        => \A i \in 1..Len(sockets') : sockets'[i].token # initToken']_vars

\* C3 witness: the startup validation was answered 401
C3_Witness ==
  /\ initOutcome = "unauthorized"
  /\ initToken = CachedToken
  /\ storage.token = None
  /\ currentUser = None

\* C4 as claimed: when the validation request fails at the network level or
\* returns a non-JSON response, that step keeps the cached session, leaves
\* the stored token and profile alone and opens the socket with the stored
\* token.
C4_IndeterminateKeepsSession ==
  [][(\E o \in {"neterr", "nonjson"}, u \in ServerUsers, c \in BOOLEAN :
        ValidateResponse(o, u, c))
     => /\ currentUser' = currentUser
        /\ storage' = storage
        /\ Len(sockets') = Len(sockets) + 1
        /\ sockets'[Len(sockets')].token = initToken]_vars

\* C5 as claimed: a connect_error whose message matches the authentication
\* pattern makes the session anonymous, clears the stored credential and
\* closes the socket in that step, whatever the user answers.
C5_AuthFailureForcesLogout ==
  [][\A i \in SocketIds, m \in AuthErrors, c \in BOOLEAN :
       ConnectError(i, m, c)
         => /\ currentUser' = None
            /\ storage'.token = None
            /\ sockets'[i].st = "closed"]_vars

\* C6 as claimed: at most one socket is open.
C6_AtMostOneOpenSocket ==
  Cardinality({i \in SocketIds : Open(i)}) <= 1

\* C7 as claimed: a non-blank input change while the typing timeout is
\* pending emits no second typing_start, and the typing timeout, when it
\* fires, emits exactly one typing_stop to the contact it was set for.
C7_OneStartOneTimerStop ==
  [][/\ (typingTimer.on /\ \E v \in Inputs : Trim(v) # "" /\ InputChange(v))
        => emitted' = <<>>
     /\ TypingTimeout
        => /\ Len(emitted') = 1
           /\ emitted'[1].ev = "typing_stop"
           /\ emitted'[1].to = typingTimer.capSel
           /\ ~isTyping']_vars

\* C8 as claimed: a non-blank input change restarts the typing timeout, so
\* that it fires two seconds after the last keystroke, and a keystroke made
\* while the timeout is pending emits no typing_start.
C8_KeystrokeRestartsTimer ==
  [][(\E v \in Inputs : Trim(v) # "" /\ InputChange(v))
     => /\ typingTimer'.on
        /\ typingTimer'.rem = TypingDelay
        /\ typingTimer.on => emitted' = <<>>]_vars

C10_LoginEstablishesSession ==
  [][\A t \in LoginTokens, u \in LoginUsers, c \in BOOLEAN :
       (authReq.login /\ AuthResponse("ok", t, u, c))
         => /\ currentUser' = u
            /\ storage' = [token |-> t, userData |-> Stringify(u)]
            /\ Len(sockets') = Len(sockets) + 1
            /\ socketRef' = Len(sockets')
            /\ sockets'[socketRef'].token = t
            /\ sockets'[socketRef'].st = "opening"]_vars

\* C10 witness: the state a successful login leaves
C10_Witness ==
  /\ currentUser \in LoginUsers
  /\ storage.token \in LoginTokens
  /\ storage.userData = Stringify(currentUser)
  /\ socketRef # 0
  /\ sockets[socketRef].token = storage.token
  /\ sockets[socketRef].st = "opening"
  /\ ~loading

SendFailed == "Failed to send message. Please try again." \in notices'

\* the step keeps every message of the sequence in its place, a pending one
\* as it was or marked delivered
KeepsMessages ==
  /\ Len(messages') >= Len(messages)
  /\ \A j \in 1..Len(messages) :
       \/ messages'[j] = messages[j]
       \/ /\ messages[j].pending
          /\ messages'[j] = [messages[j] EXCEPT !.pending = FALSE]

\* the operations that replace the whole sequence
ReplacesMessages ==
  \/ BackToContacts
  \/ LogoutClick(TRUE)
  \/ \E r \in msgReqs, o \in {"ok", "nonjson"} :
       \E d \in History(r.userId) : MessagesResponse(r, o, d, FALSE)
  \/ \E r \in msgReqs : MessagesResponse(r, "unauthorized", <<>>, TRUE)
  \/ \E l \in ServerUserLists : UsersResponse("unauthorized", l, TRUE)
  \/ \E i \in SocketIds, m \in AuthErrors : ConnectError(i, m, TRUE)

\* the step keeps every pending message in its place, as it was or marked
\* delivered
KeepsPending ==
  \A j \in 1..Len(messages) :
    messages[j].pending
      => /\ j <= Len(messages')
         /\ \/ messages'[j] = messages[j]
            \/ messages'[j] = [messages[j] EXCEPT !.pending = FALSE]

\* C11 as claimed: no step other than a send failure removes a message that
\* is still pending from the sequence, and a pending message changes only
\* by being marked delivered.
C11_PendingNeverRemoved ==
  [][KeepsPending \/ SendFailed]_vars

\* C11 amended: apart from a send failure and from the operations that
\* replace the whole sequence (back to contacts, a confirmed logout, the
\* response to a message-history load), no step removes a message, and a
\* pending message changes only by being marked delivered.
C11_AppendOnlyWithinConversation ==
  [][messages' = messages \/ KeepsMessages \/ SendFailed
       \/ ReplacesMessages]_vars

\* C11 witness: a pending message that stayed in its place while an inbound
\* message was appended after it
C11_Witness ==
  /\ Len(messages) = 2
  /\ messages[1].own /\ messages[1].pending
  /\ ~messages[2].own

\* C12 as claimed: every message received that is in the sequence shown for
\* the selected contact came from that contact: a message from another
\* contact is never appended to it.
C12_HistoryPerContact ==
  selectedUser # None
    => \A j \in 1..Len(messages) :
         ~messages[j].own => messages[j].from = selectedUser

\* C13 as claimed: when the emit of send_message throws, the sequence after
\* the handler is the sequence before it (only the optimistic message just
\* appended is removed, every other message is unchanged) and the failure
\* notice is raised.
C13_RollbackRemovesOnlyThatMessage ==
  [][((\E via \in {"button", "enter"} : SendAttempt(via, TRUE))
       /\ sendCount' = sendCount + 1)
     => (messages' = messages /\ SendFailed)]_vars

\* C14 as claimed: two optimistic messages created by distinct sendMessage
\* calls have different provisional ids, in the sequence and in the pending
\* delivery timeouts.
C14_DistinctProvisionalIds ==
  /\ \A j, k \in 1..Len(messages) :
       (messages[j].own /\ messages[k].own /\ messages[j].n # messages[k].n)
         => messages[j].id # messages[k].id
  /\ \A t1, t2 \in deliveryTimers : t1.n # t2.n => t1.id # t2.id

\* C15 as claimed: a contact put in the typing set by an inbound
\* typing_start is out of it once more than two seconds have passed since
\* that event, whether or not a typing_stop arrived.
C15_TypingExpires ==
  \A x \in typingUsers : now - typingAt[x] <= TypingDelay

\* C16: a user_offline event for x leaves x offline and the online status
\* of every other contact as it was, and leaves the state unchanged when x
\* is offline already (a second application changes nothing).
C16_OfflineIdempotent ==
  [][\A i \in SocketIds, x \in Contacts :
       UserOffline(i, x)
         => /\ x \notin onlineUsers'
            /\ \A y \in Contacts \ {x} :
                 (y \in onlineUsers') <=> (y \in onlineUsers)
            /\ x \notin onlineUsers => onlineUsers' = onlineUsers
            /\ typingUsers' = typingUsers]_vars

\* C16 witness: a user_offline event found c1 online and left it offline,
\* with c2 still online
C16_Witness ==
  /\ "c1" \in offlineSeen
  /\ "c1" \notin onlineUsers
  /\ "c2" \in onlineUsers

\* a step in which handleLogout runs and the user confirms
ConfirmedLogout ==
  \/ LogoutClick(TRUE)
  \/ \E l \in ServerUserLists : UsersResponse("unauthorized", l, TRUE)
  \/ \E i \in SocketIds, m \in AuthErrors : ConnectError(i, m, TRUE)

C18_UnauthorizedLoadEndsSession ==
  [][(\/ \E l \in ServerUserLists, c \in BOOLEAN :
           UsersResponse("unauthorized", l, c)
      \/ \E r \in msgReqs, c \in BOOLEAN : \E d \in History(r.userId) :
           MessagesResponse(r, "unauthorized", d, c))
     => /\ storage' = [token |-> None, userData |-> Absent]
        /\ currentUser' = None]_vars

\* C19 as claimed: when a users-list load fails (network error, non-JSON
\* response, non-OK status other than 401) a notice is raised and the
\* contact list is empty afterwards.
C19_FailedLoadEmptiesList ==
  [][(\E o \in {"neterr", "nonjson", "failed"}, l \in ServerUserLists,
         c \in BOOLEAN : UsersResponse(o, l, c))
     => /\ notices' # {}
        /\ users' = <<>>]_vars

\* C20: in every state the component reaches, sendMessage called with an
\* input that is empty after trimming, or with no conversation selected,
\* returns without any effect: no event is emitted, no notice raised, and
\* the message sequence and the input text are what they were.
C20_BlankSendIsNoOp ==
  (Trim(newMessage) = "" \/ selectedUser = None)
    => \A throws \in BOOLEAN : SendMessage(Cur, now, throws) = Cur

\* C20 witness: connected, with a conversation open, messages in it and
\* only white space typed, where Enter calls sendMessage
C20_Witness ==
  /\ ChatVisible
  /\ connectionStatus = Status("connected")
  /\ socketRef # 0
  /\ newMessage = " "
  /\ messages # <<>>

\* C21: when the stored token or the stored profile is absent at startup,
\* initializeApp leaves the session anonymous, issues no validation request,
\* opens no socket and issues no users-list request; and a validation
\* response only ever arrives for a startup that found a token.
C21_AnonymousWithoutCredential ==
  [][/\ (InitializeApp
          /\ (storage.token = None \/ storage.userData.kind = "absent"))
        => /\ currentUser' = None
           /\ pcInit' = "done"
           /\ initToken' = None
           /\ sockets' = sockets
           /\ socketRef' = socketRef
           /\ usersReq' = usersReq
     /\ initOutcome' # "" => initToken' # None]_vars

\* C21 witness: startup has run on a browser that holds one of the two
\* items without the other, and left the session anonymous with no socket
C21_Witness ==
  /\ pcInit = "done"
  /\ (storage.token = None) # (storage.userData.kind = "absent")
  /\ initToken = None
  /\ currentUser = None
  /\ sockets = <<>>
  /\ ~appLoading

\* C22 as claimed: the body of a desktop notification is never longer than
\* 50 characters.
C22_BodyAtMostFifty ==
  \A k \in 1..Len(notifications) : Len(notifications[k].body) <= BodyLimit

\* C22 amended: the body of the notification for a message is the content
\* when that has at most 50 characters, and otherwise its first 50
\* characters followed by '...': it is never longer than 53 characters.
C22_BodyTruncatedWithEllipsis ==
  \A k \in 1..Len(notifications) :
    LET body == notifications[k].body
        c == notifications[k].content
    IN /\ Len(body) <= BodyLimit + 3
       /\ Len(c) <= BodyLimit => body = c
       /\ Len(c) > BodyLimit
            => /\ Len(body) = BodyLimit + 3
               /\ \A j \in 1..BodyLimit : body[j] = c[j]
               /\ \A j \in BodyLimit + 1..BodyLimit + 3 : body[j] = "."

\* C22 witness: a notification for a message of more than 50 characters
C22_Witness ==
  /\ notifications # <<>>
  /\ Len(notifications[1].content) > BodyLimit
  /\ Len(notifications[1].body) = BodyLimit + 3

\* C23 as claimed: the notification for an inbound message names the
\* contact who sent it.
C23_NotificationNamesSender ==
  \A k \in 1..Len(notifications) :
    notifications[k].title = <<"New message from ", notifications[k].from>>

\* C24: the response to a message-history request sets the displayed
\* conversation and its messages to those of the request it answers,
\* whether or not the user has clicked another contact since: the last
\* response to arrive decides what is displayed, not the last click.
C24_LastResponseWins ==
  [][msgReqs' = msgReqs
     \/ \A r \in msgReqs : \A d \in History(r.userId) :
          MessagesResponse(r, "ok", d, FALSE)
            => /\ selectedUser' = r.userId
               /\ messages' = d]_vars

\* C24 witness: the user clicked c1 and then c2, the response for c2 came
\* first and that for c1 last: no request is in flight and the history of
\* c1 is displayed
C24_Witness ==
  /\ msgReqs = {}
  /\ insteadOf = "c2"
  /\ selectedUser = "c1"
  /\ messages # <<>>
  /\ \A j \in 1..Len(messages) : messages[j].from = "c1"

\* the step appends one message to the sequence and leaves the messages
\* that were in it where they were
AppendsOne ==
  /\ Len(messages') = Len(messages) + 1
  /\ SubSeq(messages', 1, Len(messages)) = messages

\* C25: every inbound message event appends one message of its sender at
\* the end of the sequence, also when an equal message is in it already,
\* and every send that does not fail appends the optimistic message at the
\* end: the sequence is in the order of the calls, nothing is reordered,
\* dropped or deduplicated by these handlers.
C25_AppendedInArrivalOrder ==
  [][/\ \A i \in SocketIds :
          InboundMessage(i, "c1", Hi, FALSE, "granted")
            => /\ AppendsOne
               /\ ~messages'[Len(messages')].own
               /\ messages'[Len(messages')].from = "c1"
     /\ (sendCount' = sendCount + 1 /\ ~SendFailed)
          => /\ AppendsOne
             /\ messages'[Len(messages')].own
             /\ messages'[Len(messages')].n = sendCount']_vars

\* C25 witness: the same inbound message delivered twice is in the sequence
\* twice
C25_Witness ==
  /\ Len(messages) = 2
  /\ ~messages[1].own
  /\ messages[2] = messages[1]

\* C26 as claimed: every push event shows exactly one notification, with
\* the title and the body of the payload where it has them and with
\* 'Chat App' and 'You have a new message' where it has not.
C26_OneNotificationPerPush ==
  [][\A p \in Payloads :
       Push(p)
         => /\ Len(swShown') = Len(swShown) + 1
            /\ Len(swCalls') = 1
            /\ swCalls'[1].op = "showNotification"
            /\ swCalls'[1].arg.title =
                 (IF p.title \in {Missing, ""} THEN "Chat App" ELSE p.title)
            /\ swCalls'[1].arg.body =
                 (IF p.body \in {Missing, ""} THEN "You have a new message"
                  ELSE p.body)]_vars

\* C27: a notification click closes the notification, and the callback of
\* its matchAll makes one call: focus on a window client when there is at
\* least one, and otherwise openWindow('/'); never both and never a new
\* window while one exists.
C27_FocusOrOpen ==
  [][/\ \A k \in 1..Len(swShown) :
          NotificationClick(k)
            => /\ swShown' = Remove(swShown, k)
               /\ swCalls' = <<[op |-> "close", arg |-> swShown[k]]>>
               /\ swWindows' = swWindows
     /\ MatchAllResolved
          => /\ Len(swCalls') = 1
             /\ swWindows > 0
                  => /\ swCalls'[1].op = "focus"
                     /\ swWindows' = swWindows
             /\ swWindows = 0
                  => /\ swCalls'[1] = [op |-> "openWindow", arg |-> "/"]
                     /\ swWindows' = 1]_vars

\* C27 witness: a click made while no window of the app existed has opened
\* one
C27_Witness ==
  /\ swCalls = <<[op |-> "openWindow", arg |-> "/"]>>
  /\ swWindows = 1
  /\ swFocused = 1

\* a step in which a successful login response arrives
LoginStep ==
  authReq.on /\ authReq.login /\ ~authReq'.on /\ currentUser' \in LoginUsers

\* C28 as claimed: while the validation request of startup is pending, no
\* socket has been opened and no users-list request has been issued.
C28_NothingBeforeValidation ==
  pcInit = "validating" => (sockets = <<>> /\ usersReq = 0)

\* C28 amended: initializeApp itself opens no socket and issues no
\* users-list request before the validation has resolved; while it is
\* pending, a users-list request is issued only by the user (the refresh
\* button of the main screen, shown from the cached profile, or a login)
\* and a socket is opened only by a successful login.
C28_StartupWaitsForValidation ==
  [][/\ InitializeApp => (sockets' = sockets /\ usersReq' = usersReq)
     /\ (pcInit = "validating" /\ pcInit' = "validating")
          => /\ Len(sockets') > Len(sockets) => LoginStep
             /\ usersReq' > usersReq
                  => (LoginStep \/ \E c \in BOOLEAN : LoadUsersClick(c))]_vars

\* C28 witness: the validation is pending, the main screen is shown from
\* the cached profile and the user has pressed refresh
C28_Witness ==
  /\ pcInit = "validating"
  /\ currentUser = CachedUser
  /\ sockets = <<>>
  /\ usersReq = 1

\* C29 as claimed: once the session is anonymous after startup (a logout
\* was confirmed, or startup found no valid credential), it becomes
\* authenticated again, and a socket is opened, only by a successful login
\* response, whatever responses to earlier requests arrive in between.
C29_AnonymousUntilLogin ==
  [][(pcInit # "start" /\ currentUser = None)
     => ((currentUser' # None \/ Len(sockets') > Len(sockets))
           => LoginStep)]_vars

\* C30 as claimed: whenever currentUser is set, a token is in localStorage.
C30_AuthenticatedHasToken ==
  currentUser # None => storage.token # None


\* the typing events a handler emitted
TypingEvents(evs) ==
  {k \in 1..Len(evs) : evs[k].ev \in {"typing_start", "typing_stop"}}

\* C31 as claimed: while a typing_start emitted to a receiver has not been
\* followed by a typing_stop to that receiver, every typing event emitted
\* goes to that receiver, whatever conversation the user has moved to in
\* between.
C31_StopBeforeOtherReceiver ==
  [][typingTo # None
     => \A k \in TypingEvents(emitted') : emitted'[k].to = typingTo]_vars


\* a step of a handleAuth that is not a successful login: the submission
\* stopped by the validation of the fields, or the arrival of a response
\* that is not OK, not JSON, a network failure, or the answer to a
\* registration
NotALogin ==
  \/ SubmitAuth(FALSE)
  \/ /\ authReq.on
     /\ ~authReq'.on
     /\ \E o \in AuthOutcomes, tk \in LoginTokens, u \in LoginUsers,
           c \in BOOLEAN :
          /\ o # "ok" \/ ~authReq.login
          /\ AuthResponse(o, tk, u, c)

\* C32: an auth submission that is not a successful login changes nothing
\* of the session: the current user, the stored credential, the sockets
\* and the connection status stay as they were, and a session that was
\* anonymous with nothing stored and no socket is so afterwards.
C32_FailedAuthChangesNothing ==
  [][NotALogin
     => /\ currentUser' = currentUser
        /\ storage' = storage
        /\ sockets' = sockets
        /\ socketRef' = socketRef
        /\ connectionStatus' = connectionStatus
        /\ usersReq' = usersReq]_vars

\* a registration has succeeded: the form is back in login mode, nobody is
\* signed in, nothing is stored and no socket exists
C32_Witness ==
  /\ "Registration successful!" \in notices
  /\ isLogin
  /\ currentUser = None
  /\ storage.token = None
  /\ sockets = <<>>


\* C33 as claimed: while nobody is signed in the connection status is not
\* 'connected'.
C33_AnonymousNotConnected ==
  currentUser = None => connectionStatus # Status("connected")


\* the message at position j is pending and the step marks it delivered
BecomesDelivered(j) ==
  /\ messages[j].own
  /\ messages[j].pending
  /\ j <= Len(messages')
  /\ messages'[j].n = messages[j].n
  /\ ~messages'[j].pending

C35_RequestCarriesLoginToken ==
  \A q \in srcApp.usersReqs : q.auth = q.login

\* a handleAuth call of a successful login ends
SrcLoginEnds ==
  \/ \E k \in 1..Len(srcApp.calls), ok \in BOOLEAN : SrcPushSetup(k, ok)
  \/ \E k \in 1..Len(srcApp.calls), tk \in SrcTokens, u \in LoginUsers :
       /\ srcApp.calls[k].login
       /\ SrcAuthResponse(k, "ok", tk, u, FALSE)

\* C36 as claimed: the handleAuth of a successful login, which has made
\* the session authenticated, ends with a socket opened and a users-list
\* request issued, whether or not the service-worker block succeeded.
C36_LoginOpensChannel ==
  [][SrcLoginEnds
     => /\ srcApp'.currentUser # None
        /\ Len(srcApp'.sockets) = Len(srcApp.sockets) + 1
        /\ srcApp'.usersReqs # {}]_vars


\* C37 as claimed: while the connection status is one set by a
\* reconnect_attempt event, getConnectionStatusColor returns the colour it
\* returns for 'connecting', '#ffa500'.
C37_ReconnectingColour ==
  IsReconnecting(connectionStatus)
    => /\ GetConnectionStatusColor(connectionStatus) = "#ffa500"
       /\ GetConnectionStatusColor(connectionStatus)
            = GetConnectionStatusColor(Status("connecting"))

====
